---------------------------- MODULE Spec2Model ----------------------------
(***************************************************************************)
(* A model of the hyperscale-mcp task engine: Run (tasks/run.py) and       *)
(* TaskRunner (tasks/task_runner.py).                                      *)
(*                                                                         *)
(* The specifications share the module's state:                            *)
(*   SpecExec   in-process runs (Run._execute) contending for the worker   *)
(*              pool and its semaphore; SpecExecFair adds the event loop's *)
(*              and the pool's progress guarantees;                        *)
(*   SpecShell  one external-command run (Run._execute_shell), its         *)
(*              process, its pipes, its read lock and concurrent callers   *)
(*              of get_run_update;                                         *)
(*   Spec       the TaskRunner registry (run / command).                   *)
(*   SpecCalls, SpecQueries   complete / cancel / abort on a Run and the   *)
(*              TaskRunner's queries by name;                              *)
(*   SpecSweep, SpecCleanupLoop   the cleanup loop and its sweeps;         *)
(*   SpecTeardown, SpecPoolTeardown   shutdown and abort;                  *)
(*   SpecSchedule   the Tasks' scheduling loops;                           *)
(*   SpecSignals    the signal handlers installed by the constructor.      *)
(***************************************************************************)
EXTENDS Integers, Sequences, FiniteSets, TLC

\* ------------------------------------------------------------------ bounds

\* Worker-pool capacity of the configuration under check.
K == 1

\* The in-process runs: one more than the pool can execute at once.
Runs == 1..(K + 1)

\* Chunks the external process writes to its pipes, stdout and stderr
\* together.
MaxWrites == 3

\* Concurrent callers of get_run_update on the external-command run.
NumCallers == 1

Callers == 1..NumCallers

\* The run's own polling loop as a reader of the pipes.
Poll == 0

Readers == {Poll} \cup Callers

\* Calls of TaskRunner.run and TaskRunner.command.
MaxCalls == 3

\* Task names: call.__name__ for run, the alias or the command for command.
Names == {"a", "b"}

\* Exit codes of the external process (negative: ended by a signal).
ExitCodes == {0, 1, -15}

None == "None"

\* An absent text (Python None where a str is expected).
NoText == <<0>>

\* ------------------------------------------------------------------- state

VARIABLES
    \* ---- in-process runs (Run, one per element of Runs)
    pc,          \* position of the run's _execute coroutine
    kind,        \* "async" (awaited directly) or "pool" (run_in_executor)
    status,      \* Run.status
    result,      \* Run.result
    error,       \* Run.error: "none", "timeout" or "exception" message
    deadline,    \* the run's timeout: "unset", "armed", "overran", "late"
    work,        \* the callable: "none", "queued", "running", "returned",
                 \* "raised", "cancelled"
    semaphore,   \* TaskRunner._executor_sempahore: its free slots
    \* ---- the external-command run
    shell,       \* the Run: pc of _execute_shell, status, error, result,
                 \* the update it ended with, timeout and history flags
    process,     \* Run._process and its pipes
    read_lock,   \* Run._read_lock: the set of its holders (at most one)
    rd,          \* per reader: position in get_run_update and its buffers
    \* ---- the TaskRunner registry
    tasks,           \* TaskRunner.tasks: name -> Task
    cleanupStarted,  \* TaskRunner._cleanup_task is not None
    issued,          \* ids the snowflake generator has issued to runs
    calls,           \* run / command calls made so far
    lastCall,        \* the last run / command call and what it returned
    first,           \* history: name -> settings of the first call under it
    order,           \* TaskRunner.tasks: its names in insertion order
    handlers,        \* the handlers of the process's signals, the variables
                     \* the event loop's signal callbacks close over, and
                     \* the history of the signals delivered
    \* ---- calls on a Run and on the TaskRunner, and its loops
    lastOp,      \* the last complete / cancel / abort call on a Run
    sweep,       \* TaskRunner._cleanup_scheduled_tasks: the sweep under way
    down,        \* TaskRunner.shutdown / abort: the call under way
    query,       \* the last query on the TaskRunner and its outcome
    settled,     \* ids of the Tasks' runs that reached a terminal status
    evicted,     \* history: the <<name, id>> of the runs a sweep evicted
    loops        \* per name: the runs the Task's scheduling loop has
                 \* created, and the number of run / command calls made
                 \* when cancel_schedule was last called (-1: never)

execVars == <<pc, kind, status, result, error, deadline, work, semaphore>>

shellVars == <<shell, process, read_lock, rd>>

regVars ==
    <<tasks, cleanupStarted, issued, calls, lastCall, first, order, handlers>>

opsVars == <<lastOp, sweep, down, query, settled, evicted, loops>>

vars == <<execVars, shellVars, regVars, opsVars>>

\* ------------------------------------------------------------ configuration

\* A capacity one larger than configured.
MaxThreadsOffByOne == K + 1

\* config.MERCURY_SYNC_TASK_RUNNER_MAX_THREADS: the pool's max_workers and
\* the semaphore's initial value.
MaxThreads == K

Terminal == {"COMPLETE", "FAILED", "CANCELLED"}

\* The value the callable returns.
RetVal == "v"

\* --------------------------------------------------------- in-process runs

\* Pool work items a worker is executing.
Executing == {r \in Runs : kind[r] = "pool" /\ work[r] = "running"}

\* Run.execute: the Task constructs the Run (status CREATED) and schedules
\* its _execute coroutine on the event loop.
Dispatch(r, k, t) ==
    /\ pc[r] = "new"
    /\ pc' = [pc EXCEPT ![r] = "start"]
    /\ kind' = [kind EXCEPT ![r] = k]
    /\ deadline' = [deadline EXCEPT ![r] = IF t THEN "armed" ELSE "unset"]
    /\ UNCHANGED <<status, result, error, work, semaphore>>
    /\ UNCHANGED <<shellVars, regVars, opsVars>>

\* Run._execute from the return of self._semaphore.acquire() to its next
\* suspension: the work item is submitted to the executor; with a timeout
\* asyncio.wait_for is called without its timeout argument, which raises
\* TypeError after run_in_executor has submitted the work, skipping release.
Acquired(r) ==
    /\ semaphore' = semaphore - 1
    /\ work' = [work EXCEPT ![r] = "queued"]
    /\ IF deadline[r] # "unset"
       THEN /\ status' = [status EXCEPT ![r] = "FAILED"]
            /\ error' = [error EXCEPT ![r] = "exception"]
            /\ pc' = [pc EXCEPT ![r] = "done"]
       ELSE /\ pc' = [pc EXCEPT ![r] = "inpool"]
            /\ UNCHANGED error

\* Run._execute with the slot acquired ahead of the branch on the kind of
\* the callable: an asynchronous callable takes a slot too.
StartAcquiringFirst(r) ==
    /\ pc[r] = "start"
    /\ IF semaphore > 0
       THEN IF kind[r] = "async"
            THEN /\ semaphore' = semaphore - 1
                 /\ status' = [status EXCEPT ![r] = "RUNNING"]
                 /\ pc' = [pc EXCEPT ![r] = "await"]
                 /\ work' = [work EXCEPT ![r] = "running"]
                 /\ UNCHANGED error
            ELSE /\ Acquired(r)
                 /\ IF deadline[r] = "unset"
                    THEN status' = [status EXCEPT ![r] = "RUNNING"]
                    ELSE TRUE
       ELSE /\ kind[r] = "pool"
            /\ status' = [status EXCEPT ![r] = "RUNNING"]
            /\ pc' = [pc EXCEPT ![r] = "acquire"]
            /\ UNCHANGED <<semaphore, error, work>>
    /\ UNCHANGED <<kind, result, deadline>>
    /\ UNCHANGED <<shellVars, regVars, opsVars>>

\* Run._execute, first step: status RUNNING, then the branch on the kind of
\* the callable and on the timeout.
Start(r) ==
    /\ pc[r] = "start"
    /\ IF kind[r] = "async"
       THEN /\ status' = [status EXCEPT ![r] = "RUNNING"]
            /\ pc' = [pc EXCEPT ![r] = "await"]
            /\ work' = [work EXCEPT ![r] = "running"]
            /\ UNCHANGED <<semaphore, error>>
       ELSE IF semaphore > 0
            THEN /\ Acquired(r)
                 /\ IF deadline[r] = "unset"
                    THEN status' = [status EXCEPT ![r] = "RUNNING"]
                    ELSE TRUE
            ELSE /\ status' = [status EXCEPT ![r] = "RUNNING"]
                 /\ pc' = [pc EXCEPT ![r] = "acquire"]
                 /\ UNCHANGED <<semaphore, error, work>>
    /\ UNCHANGED <<kind, result, deadline>>
    /\ UNCHANGED <<shellVars, regVars, opsVars>>

\* A run suspended in self._semaphore.acquire() gets a slot.
Acquire(r) ==
    /\ pc[r] = "acquire"
    /\ semaphore > 0
    /\ Acquired(r)
    /\ IF deadline[r] = "unset" THEN UNCHANGED status ELSE TRUE
    /\ UNCHANGED <<kind, result, deadline>>
    /\ UNCHANGED <<shellVars, regVars, opsVars>>

\* The executor hands a queued work item to a free worker.
PoolStart(r) ==
    /\ kind[r] = "pool"
    /\ work[r] = "queued"
    /\ Cardinality(Executing) < MaxThreads
    /\ work' = [work EXCEPT ![r] = "running"]
    /\ UNCHANGED <<pc, kind, status, result, error, deadline, semaphore>>
    /\ UNCHANGED <<shellVars, regVars, opsVars>>

\* The callable returns on its worker.
CallableReturns(r) ==
    /\ kind[r] = "pool"
    /\ work[r] = "running"
    /\ work' = [work EXCEPT ![r] = "returned"]
    /\ UNCHANGED <<pc, kind, status, result, error, deadline, semaphore>>
    /\ UNCHANGED <<shellVars, regVars, opsVars>>

\* The callable raises on its worker.
CallableRaises(r) ==
    /\ kind[r] = "pool"
    /\ work[r] = "running"
    /\ work' = [work EXCEPT ![r] = "raised"]
    /\ UNCHANGED <<pc, kind, status, result, error, deadline, semaphore>>
    /\ UNCHANGED <<shellVars, regVars, opsVars>>

\* Run._execute resumes from `await run_in_executor(...)` (no timeout): on a
\* result it releases the slot and completes; an exception leaves the try
\* block before the release.
Resume(r) ==
    /\ pc[r] = "inpool"
    /\ work[r] \in {"returned", "raised"}
    /\ pc' = [pc EXCEPT ![r] = "done"]
    /\ IF work[r] = "returned"
       THEN /\ result' = [result EXCEPT ![r] = RetVal]
            /\ semaphore' = semaphore + 1
            /\ status' = [status EXCEPT ![r] = "COMPLETE"]
            /\ UNCHANGED error
       ELSE /\ error' = [error EXCEPT ![r] = "exception"]
            /\ status' = [status EXCEPT ![r] = "FAILED"]
            /\ UNCHANGED <<result, semaphore>>
    /\ UNCHANGED <<kind, deadline, work>>
    /\ UNCHANGED <<shellVars, regVars, opsVars>>

\* An awaited asynchronous callable returns.
AsyncReturns(r) ==
    /\ pc[r] = "await"
    /\ pc' = [pc EXCEPT ![r] = "done"]
    /\ work' = [work EXCEPT ![r] = "returned"]
    /\ result' = [result EXCEPT ![r] = RetVal]
    /\ status' = [status EXCEPT ![r] = "COMPLETE"]
    /\ UNCHANGED <<kind, error, deadline, semaphore>>
    /\ UNCHANGED <<shellVars, regVars, opsVars>>

\* An awaited asynchronous callable raises.
AsyncRaises(r) ==
    /\ pc[r] = "await"
    /\ pc' = [pc EXCEPT ![r] = "done"]
    /\ work' = [work EXCEPT ![r] = "raised"]
    /\ error' = [error EXCEPT ![r] = "exception"]
    /\ status' = [status EXCEPT ![r] = "FAILED"]
    /\ UNCHANGED <<kind, result, deadline, semaphore>>
    /\ UNCHANGED <<shellVars, regVars, opsVars>>

\* asyncio.wait_for(self.call(...), timeout=self.timeout) expires: the
\* coroutine is cancelled and TimeoutError is handled.
AsyncTimeout(r) ==
    /\ pc[r] = "await"
    /\ deadline[r] = "armed"
    /\ deadline' = [deadline EXCEPT ![r] = "overran"]
    /\ pc' = [pc EXCEPT ![r] = "done"]
    /\ work' = [work EXCEPT ![r] = "cancelled"]
    /\ error' = [error EXCEPT ![r] = "timeout"]
    /\ status' = [status EXCEPT ![r] = "FAILED"]
    /\ UNCHANGED <<kind, result, semaphore>>
    /\ UNCHANGED <<shellVars, regVars, opsVars>>

\* The timeout of a pool-bound run elapses. No timer of the code is bound to
\* it (wait_for never received it); the deadline records whether the
\* callable had finished ("late") or not ("overran").
DeadlinePasses(r) ==
    /\ kind[r] = "pool"
    /\ deadline[r] = "armed"
    /\ pc[r] \notin {"new", "start"}
    /\ deadline' = [deadline EXCEPT ![r] =
           IF work[r] \in {"returned", "raised"} THEN "late" ELSE "overran"]
    /\ UNCHANGED <<pc, kind, status, result, error, work, semaphore>>
    /\ UNCHANGED <<shellVars, regVars, opsVars>>

\* Run.cancel on an in-process run: there is no process; _task is an
\* asyncio.Task, whose set_result raises (swallowed), so the coroutine keeps
\* running; the status is set to CANCELLED.
Cancel(r) ==
    /\ pc[r] # "new"
    /\ status' = [status EXCEPT ![r] = "CANCELLED"]
    /\ UNCHANGED <<pc, kind, result, error, deadline, work, semaphore>>
    /\ UNCHANGED <<shellVars, regVars, opsVars>>

\* Run.abort on an in-process run: as cancel.
Abort(r) ==
    /\ pc[r] # "new"
    /\ status' = [status EXCEPT ![r] = "CANCELLED"]
    /\ UNCHANGED <<pc, kind, result, error, deadline, work, semaphore>>
    /\ UNCHANGED <<shellVars, regVars, opsVars>>

\* One step of run r that the event loop or the pool takes on its own.
RunStep(r) ==
    \/ Start(r)
    \/ Acquire(r)
    \/ PoolStart(r)
    \/ CallableReturns(r)
    \/ CallableRaises(r)
    \/ Resume(r)
    \/ AsyncReturns(r)
    \/ AsyncRaises(r)

InitExec ==
    /\ pc = [r \in Runs |-> "new"]
    /\ kind = [r \in Runs |-> "pool"]
    /\ status = [r \in Runs |-> "CREATED"]
    /\ result = [r \in Runs |-> None]
    /\ error = [r \in Runs |-> "none"]
    /\ deadline = [r \in Runs |-> "unset"]
    /\ work = [r \in Runs |-> "none"]
    /\ semaphore = MaxThreads

NextExec ==
    \E r \in Runs :
        \/ \E k \in {"async", "pool"}, t \in BOOLEAN : Dispatch(r, k, t)
        \/ Start(r)
        \/ Acquire(r)
        \/ PoolStart(r)
        \/ CallableReturns(r)
        \/ CallableRaises(r)
        \/ Resume(r)
        \/ AsyncReturns(r)
        \/ AsyncRaises(r)
        \/ AsyncTimeout(r)
        \/ DeadlinePasses(r)
        \/ Cancel(r)
        \/ Abort(r)

\* ---------------------------------------------------- external-command run

\* A message: how Run.error is built. wrap "failed" is the "Err. - Task Run
\* - ... failed. Encountered exception - <inner>." text around the inner
\* message; inner is the stderr text read, the timeout text, or nothing.
NoError == [wrap |-> "none", inner |-> "none", text |-> <<>>]

ErrorNonEmpty(e) ==
    \/ e.wrap = "failed"
    \/ e.inner = "timeout"
    \/ (e.inner = "stderr" /\ e.text # <<>>)

NoUpdate ==
    [made |-> FALSE, status |-> None, exited |-> FALSE, return_code |-> 0,
     error |-> NoError, result |-> NoText]

IdleReader == [at |-> "idle", err |-> <<>>, out |-> <<>>]

\* bytes(buffer).decode() succeeds: no chunk of the buffer holds bytes that
\* are not UTF-8 (such a chunk is a negative number).
Decodable(buffer) == \A i \in 1..Len(buffer) : buffer[i] > 0

\* Run._execute_shell: `self.return_code != 0`; the return code of a process
\* that has not exited is None, which differs from 0.
ReturnCodeFailed(p) == ~p.exited \/ p.returncode # 0

\* Run.execute_shell: schedules _execute_shell; t: a timeout was given.
ShellDispatch(t) ==
    /\ shell.pc = "new"
    /\ shell' = [shell EXCEPT !.pc = "spawn", !.hasTimeout = t]
    /\ UNCHANGED <<process, read_lock, rd>>
    /\ UNCHANGED <<execVars, regVars, opsVars>>

\* Run._execute_shell up to its first suspension in the polling loop. A
\* failed spawn is swallowed and leaves _process None: get_run_update then
\* returns at once and `self._process.returncode` raises AttributeError,
\* which no handler of _execute_shell catches.
ShellSpawn(ok) ==
    /\ shell.pc = "spawn"
    /\ IF ok
       THEN /\ process' = [process EXCEPT !.spawned = TRUE]
            /\ shell' = [shell EXCEPT !.pc = "polling", !.status = "RUNNING"]
            /\ rd' = [rd EXCEPT ![Poll] = [IdleReader EXCEPT !.at = "err_acq"]]
       ELSE /\ shell' = [shell EXCEPT !.pc = "crashed", !.status = "RUNNING"]
            /\ UNCHANGED <<process, rd>>
    /\ UNCHANGED read_lock
    /\ UNCHANGED <<execVars, regVars, opsVars>>

\* The process writes a chunk to stdout: the chunks are numbered, and one
\* that is not UTF-8 is written as the negative of its number.
ProcWriteOut(utf8) ==
    /\ process.spawned /\ ~process.exited
    /\ Len(process.written) + process.nerr < MaxWrites
    /\ LET n == Len(process.written) + 1
           chunk == IF utf8 THEN n ELSE 0 - n
       IN  process' = [process EXCEPT !.written = Append(@, chunk),
                                      !.stdout = Append(@, chunk)]
    /\ UNCHANGED <<shell, read_lock, rd>>
    /\ UNCHANGED <<execVars, regVars, opsVars>>

\* The process writes a chunk to stderr.
ProcWriteErr(utf8) ==
    /\ process.spawned /\ ~process.exited
    /\ Len(process.written) + process.nerr < MaxWrites
    /\ LET n == process.nerr + 1
           chunk == IF utf8 THEN n ELSE 0 - n
       IN  process' = [process EXCEPT !.nerr = n,
                                      !.stderr = Append(@, chunk)]
    /\ UNCHANGED <<shell, read_lock, rd>>
    /\ UNCHANGED <<execVars, regVars, opsVars>>

\* The process exits and the event loop records its return code; a killed
\* process ends with -9.
ProcExit(code) ==
    /\ process.spawned /\ ~process.exited
    /\ process' = [process EXCEPT
           !.exited = TRUE,
           !.returncode = IF process.sig = "KILL" THEN -9 ELSE code]
    /\ UNCHANGED <<shell, read_lock, rd>>
    /\ UNCHANGED <<execVars, regVars, opsVars>>

\* A caller enters Run.get_run_update (TaskRunner.get_task_update, wait).
\* Without a process it returns a TaskRun at once; with one it starts
\* get_stderr.
CallerBegins(c) ==
    /\ shell.pc # "new"
    /\ rd[c].at = "idle"
    /\ process.spawned
    /\ rd' = [rd EXCEPT ![c] = [IdleReader EXCEPT !.at = "err_acq"]]
    /\ UNCHANGED <<shell, process, read_lock>>
    /\ UNCHANGED <<execVars, regVars, opsVars>>

\* _read_stderr_with_timeout / _read_stdout_with_timeout:
\* `await self._read_lock.acquire()` returns.
LockAcquire(x) ==
    /\ rd[x].at \in {"err_acq", "out_acq"}
    /\ read_lock = {}
    /\ read_lock' = {x}
    /\ rd' = [rd EXCEPT ![x].at = IF @ = "err_acq" THEN "err_read"
                                                    ELSE "out_read"]
    /\ UNCHANGED <<shell, process>>
    /\ UNCHANGED <<execVars, regVars, opsVars>>

\* A caller's _read_stderr_with_timeout returns: the bounded read returns
\* what the pipe holds (nothing on the read timeout or at end of file) and
\* the lock is released; get_stderr reads again after a non-empty chunk;
\* after an empty one it decodes its buffer and get_run_update goes on to
\* get_stdout, or the decoding raises to the caller.
CallerReadStderr(c) ==
    /\ rd[c].at = "err_read"
    /\ process' = [process EXCEPT !.stderr = <<>>]
    /\ read_lock' = {}
    /\ rd' = [rd EXCEPT ![c] =
                 IF process.stderr # <<>>
                 THEN [@ EXCEPT !.err = @ \o process.stderr, !.at = "err_acq"]
                 ELSE IF Decodable(rd[c].err)
                 THEN [@ EXCEPT !.err = <<>>, !.at = "out_acq"]
                 ELSE IdleReader]
    /\ UNCHANGED shell
    /\ UNCHANGED <<execVars, regVars, opsVars>>

\* The polling loop's _read_stderr_with_timeout returns. When get_stderr
\* cannot decode what it has read, UnicodeDecodeError leaves
\* get_run_update, _poll_for_shell_complete and _execute_shell (which
\* handles TimeoutError only): the coroutine ends and the status stays as
\* it is.
PollReadStderr ==
    /\ shell.pc = "polling"
    /\ rd[Poll].at = "err_read"
    /\ process' = [process EXCEPT !.stderr = <<>>]
    /\ read_lock' = {}
    /\ IF process.stderr # <<>>
       THEN /\ rd' = [rd EXCEPT ![Poll].err = @ \o process.stderr,
                                ![Poll].at = "err_acq"]
            /\ UNCHANGED shell
       ELSE IF Decodable(rd[Poll].err)
       THEN /\ rd' = [rd EXCEPT ![Poll].at = "out_acq"]
            /\ UNCHANGED shell
       ELSE /\ rd' = [rd EXCEPT ![Poll] = IdleReader]
            /\ shell' = [shell EXCEPT !.pc = "crashed"]
    /\ UNCHANGED <<execVars, regVars, opsVars>>

\* The ShellProcess get_run_update builds once get_stdout has returned.
Snapshot(x) ==
    [made |-> TRUE, status |-> shell.status, exited |-> process.exited,
     return_code |-> process.returncode,
     error |-> [wrap |-> "none", inner |-> "stderr", text |-> rd[x].err],
     result |-> rd[x].out]

\* The update _execute_shell builds in its TimeoutError handler.
TimeoutUpdate ==
    [made |-> TRUE, status |-> "FAILED", exited |-> process.exited,
     return_code |-> process.returncode,
     error |-> [wrap |-> "none", inner |-> "timeout", text |-> <<>>],
     result |-> NoText]

\* Run._execute_shell after the polling loop: error, status by the return
\* code, and result. `update.result.decode()` succeeds or raises (swallowed)
\* with the type the ShellProcess model gives the field; decodes says which.
Finished(update, decodes) ==
    [shell EXCEPT
        !.pc = "done",
        !.update = update,
        !.error = [update.error EXCEPT
                      !.wrap = IF ReturnCodeFailed(process) THEN "failed"
                                                            ELSE "none"],
        !.status = IF ReturnCodeFailed(process) THEN "FAILED" ELSE "COMPLETE",
        !.result = IF decodes /\ update.result # NoText THEN update.result
                                                         ELSE shell.result]

\* A caller's _read_stdout_with_timeout returns; after an empty chunk its
\* get_run_update returns the snapshot to the caller, or the decoding of
\* what get_stdout has read raises to the caller.
CallerReadStdout(c) ==
    /\ rd[c].at = "out_read"
    /\ process' = [process EXCEPT !.stdout = <<>>]
    /\ read_lock' = {}
    /\ rd' = [rd EXCEPT ![c] =
                 IF process.stdout # <<>>
                 THEN [@ EXCEPT !.out = @ \o process.stdout, !.at = "out_acq"]
                 ELSE IdleReader]
    /\ UNCHANGED shell
    /\ UNCHANGED <<execVars, regVars, opsVars>>

\* The polling loop's _read_stdout_with_timeout returns; after an empty
\* chunk get_stdout decodes its buffer (UnicodeDecodeError ends the
\* coroutine as in PollReadStderr), get_run_update returns and
\* _poll_for_shell_complete tests the return code: sleep and poll again, or
\* return the last update to _execute_shell, which finishes without
\* suspending.
PollReadStdout ==
    /\ shell.pc = "polling"
    /\ rd[Poll].at = "out_read"
    /\ process' = [process EXCEPT !.stdout = <<>>]
    /\ read_lock' = {}
    /\ IF process.stdout # <<>>
       THEN /\ rd' = [rd EXCEPT ![Poll].out = @ \o process.stdout,
                                ![Poll].at = "out_acq"]
            /\ UNCHANGED shell
       ELSE /\ rd' = [rd EXCEPT ![Poll] = IdleReader]
            /\ IF ~Decodable(rd[Poll].out)
               THEN shell' = [shell EXCEPT !.pc = "crashed"]
               ELSE IF process.exited
               THEN \E decodes \in BOOLEAN :
                        shell' = Finished(Snapshot(Poll), decodes)
               ELSE shell' = [shell EXCEPT !.pc = "sleep"]
    /\ UNCHANGED <<execVars, regVars, opsVars>>

\* _poll_for_shell_complete: asyncio.sleep(poll_interval) returns and the
\* next get_run_update starts.
PollWakes ==
    /\ shell.pc = "sleep"
    /\ shell' = [shell EXCEPT !.pc = "polling"]
    /\ rd' = [rd EXCEPT ![Poll] = [IdleReader EXCEPT !.at = "err_acq"]]
    /\ UNCHANGED <<process, read_lock>>
    /\ UNCHANGED <<execVars, regVars, opsVars>>

\* asyncio.wait_for(self._poll_for_shell_complete(...), timeout) expires:
\* the polling loop is cancelled where it is suspended. CancelledError is
\* not the TimeoutError the chunk readers catch, so a read in progress is
\* left without releasing the lock. _execute_shell then handles
\* TimeoutError and finishes.
ShellTimeout ==
    /\ shell.hasTimeout
    /\ shell.pc \in {"polling", "sleep"}
    /\ rd' = [rd EXCEPT ![Poll] = IdleReader]
    /\ shell' = [Finished(TimeoutUpdate, FALSE) EXCEPT !.timedOut = TRUE]
    /\ UNCHANGED <<process, read_lock>>
    /\ UNCHANGED <<execVars, regVars, opsVars>>

\* Run.cancel on the external-command run: terminate a live process (the
\* lookup of a gone one raises, swallowed); _task.set_result raises,
\* swallowed; status CANCELLED.
ShellCancel ==
    /\ shell.pc # "new"
    /\ process' = [process EXCEPT
           !.sig = IF process.spawned /\ ~process.exited /\ @ = "none"
                   THEN "TERM" ELSE @]
    /\ shell' = [shell EXCEPT !.status = "CANCELLED", !.cancelled = TRUE]
    /\ UNCHANGED <<read_lock, rd>>
    /\ UNCHANGED <<execVars, regVars, opsVars>>

\* Run.abort on the external-command run: kill the process, then as cancel.
\* Process.kill on a process whose transport has closed raises
\* ProcessLookupError out of abort before the status is set.
ShellAbort(raises) ==
    /\ shell.pc # "new"
    /\ raises => process.spawned /\ process.exited
    /\ IF raises
       THEN UNCHANGED <<shell, process>>
       ELSE /\ process' = [process EXCEPT
                   !.sig = IF process.spawned /\ ~process.exited
                           THEN "KILL" ELSE @]
            /\ shell' = [shell EXCEPT !.status = "CANCELLED",
                                      !.cancelled = TRUE]
    /\ UNCHANGED <<read_lock, rd>>
    /\ UNCHANGED <<execVars, regVars, opsVars>>

InitShell ==
    /\ shell = [pc |-> "new", status |-> "CREATED", error |-> NoError,
                result |-> NoText, update |-> NoUpdate, hasTimeout |-> FALSE,
                timedOut |-> FALSE, cancelled |-> FALSE]
    /\ process = [spawned |-> FALSE, exited |-> FALSE, returncode |-> 0,
                  sig |-> "none", stdout |-> <<>>, stderr |-> <<>>,
                  written |-> <<>>, nerr |-> 0]
    /\ read_lock = {}
    /\ rd = [x \in Readers |-> IdleReader]

NextShell ==
    \/ \E t \in BOOLEAN : ShellDispatch(t)
    \/ \E ok \in BOOLEAN : ShellSpawn(ok)
    \/ \E utf8 \in BOOLEAN : ProcWriteOut(utf8)
    \/ \E utf8 \in BOOLEAN : ProcWriteErr(utf8)
    \/ \E code \in ExitCodes : ProcExit(code)
    \/ \E c \in Callers : CallerBegins(c)
    \/ \E x \in Readers : LockAcquire(x)
    \/ \E c \in Callers : CallerReadStderr(c)
    \/ PollReadStderr
    \/ \E c \in Callers : CallerReadStdout(c)
    \/ PollReadStdout
    \/ PollWakes
    \/ ShellTimeout
    \/ ShellCancel
    \/ \E raises \in BOOLEAN : ShellAbort(raises)

\* ---------------------------------------------- TaskRunner signal handlers

Signals == {"SIGINT", "SIGTERM", "SIGHUP"}

\* signal.SIG_IGN where a signal number is expected: Handlers.SIG_IGN is an
\* IntEnum member of value 1, the number of SIGHUP.
SIG_IGN == "SIGHUP"

\* `[signal.SIGINT, signal.SIGTERM, signal.SIG_IGN]`, the list __init__
\* iterates over.
HandledSignals == <<"SIGINT", "SIGTERM", SIG_IGN>>

\* The handler a signal has when the TaskRunner is constructed (for SIGINT
\* Python's default_int_handler, otherwise SIG_DFL).
Original(sig) == <<"original", sig>>

\* The handler loop.add_signal_handler installs: it runs the callback the
\* loop keeps for the signal.
LoopHandler == <<"loop">>

\* The process before the TaskRunner is constructed. cell holds the local
\* variables `sig` and `default_handler` of __init__, which every lambda
\* closes over.
NoHandlers ==
    [handler |-> [s \in Signals |-> Original(s)],
     cell |-> [sig |-> None, default_handler |-> None],
     running |-> None, handled |-> {}, delivered |-> 0, ended |-> None]

\* TaskRunner.__init__, the `for sig in [...]` loop from its i-th
\* iteration: `default_handler = signal.getsignal(sig)`, then
\* add_signal_handler(sig, lambda: shutdown_executor(sig, self._executor,
\* default_handler)). The lambda reads sig and default_handler when it is
\* called, not when it is created.
RECURSIVE AddSignalHandlers(_, _)
AddSignalHandlers(h, i) ==
    IF i > Len(HandledSignals) THEN h
    ELSE LET sig == HandledSignals[i]
         IN  AddSignalHandlers(
                 [h EXCEPT !.cell = [sig |-> sig,
                                     default_handler |-> h.handler[sig]],
                           !.handler[sig] = LoopHandler],
                 i + 1)

\* ------------------------------------------------------ TaskRunner registry

\* The settings a call passes: schedule, trigger, repeat, keep, max_age and
\* keep_policy. repeat "COUNT" stands for an integer repeat count.
Retention ==
    {[trigger |-> "MANUAL", keep |-> None, max_age |-> None,
      keep_policy |-> "COUNT"],
     [trigger |-> "ON_START", keep |-> "1", max_age |-> "1m",
      keep_policy |-> "COUNT_AND_AGE"]}

Settings ==
    {[schedule |-> s, trigger |-> k.trigger, repeat |-> r, keep |-> k.keep,
      max_age |-> k.max_age, keep_policy |-> k.keep_policy] :
        s \in {None, "1s"}, r \in {"NEVER", "ALWAYS", "COUNT"},
        k \in Retention}

\* What a call returns when it falls off the end of run / command: None.
NoRun == 0

NoCall ==
    [op |-> "none", name |-> None, settings |-> None, returned |-> NoRun]

\* Task(...): the Task keeps the settings it is constructed with and starts
\* with no runs and no schedule loop.
NewTask(type, cfg) ==
    [task_type |-> type, schedule |-> cfg.schedule, trigger |-> cfg.trigger,
     repeat |-> cfg.repeat, keep |-> cfg.keep, max_age |-> cfg.max_age,
     keep_policy |-> cfg.keep_policy, runs |-> <<>>, scheduled |-> FALSE]

SettingsOf(task) ==
    [schedule |-> task.schedule, trigger |-> task.trigger,
     repeat |-> task.repeat, keep |-> task.keep, max_age |-> task.max_age,
     keep_policy |-> task.keep_policy]

\* Task.run / Task.run_shell: a new Run with a fresh id is registered in the
\* Task's run map and dispatched.
TaskRun(task, id) == [task EXCEPT !.runs = Append(@, id)]

\* Task.run_schedule / Task.run_shell_schedule: the schedule loop is armed;
\* trigger ON_START dispatches once at once when the loop is first armed.
TaskRunSchedule(task, id) ==
    [task EXCEPT !.scheduled = TRUE,
                 !.runs = IF task.trigger = "ON_START" /\ ~task.scheduled
                          THEN Append(@, id) ELSE @]

\* Registration that replaces the Task of a name already in use.
RegisterOverwriting(reg, name, task) ==
    [n \in DOMAIN reg \cup {name} |-> IF n = name THEN task ELSE reg[n]]

\* TaskRunner.run / TaskRunner.command: `task = self.tasks.get(name)`, and
\* only `if task is None` is a Task constructed and stored under the name.
Register(reg, name, task) ==
    [n \in DOMAIN reg \cup {name} |->
        IF n \in DOMAIN reg THEN reg[n] ELSE task]

\* The tail of run / command on the Task found or stored under the name:
\* repeat NEVER dispatches one run; otherwise a set schedule starts the
\* scheduled dispatch; otherwise neither branch is taken and the call
\* returns None.
DispatchCall(op, name, cfg, reg) ==
    LET task == reg[name]
        id == issued + 1
        call == [op |-> op, name |-> name, settings |-> cfg]
    IN  IF task.repeat = "NEVER"
        THEN /\ tasks' = [reg EXCEPT ![name] = TaskRun(task, id)]
             /\ issued' = id
             /\ lastCall' = call @@ [returned |-> id]
        ELSE IF task.schedule # None
        THEN /\ tasks' = [reg EXCEPT ![name] = TaskRunSchedule(task, id)]
             /\ issued' = id
             /\ lastCall' = call @@ [returned |-> id]
        ELSE /\ tasks' = reg
             /\ issued' = issued
             /\ lastCall' = call @@ [returned |-> NoRun]

\* TaskRunner.run(call, ...), name = call.__name__, timeout well-formed: the
\* cleanup loop is started on first use, the Task is found or created, and
\* the call is dispatched.
TaskRunnerRun(name, cfg) ==
    /\ calls < MaxCalls
    /\ calls' = calls + 1
    /\ cleanupStarted' = TRUE
    /\ first' = IF name \in DOMAIN first THEN first
                ELSE [n \in DOMAIN first \cup {name} |->
                         IF n = name THEN cfg ELSE first[n]]
    /\ order' = IF name \in DOMAIN tasks THEN order ELSE Append(order, name)
    /\ DispatchCall("run", name, cfg,
                    Register(tasks, name, NewTask("CALL", cfg)))
    /\ UNCHANGED <<execVars, shellVars, opsVars, handlers>>

\* TaskRunner.command(command, ..., alias), name = alias or command, timeout
\* well-formed: as run, with a Task of type SHELL.
TaskRunnerCommand(name, cfg) ==
    /\ calls < MaxCalls
    /\ calls' = calls + 1
    /\ cleanupStarted' = TRUE
    /\ first' = IF name \in DOMAIN first THEN first
                ELSE [n \in DOMAIN first \cup {name} |->
                         IF n = name THEN cfg ELSE first[n]]
    /\ order' = IF name \in DOMAIN tasks THEN order ELSE Append(order, name)
    /\ DispatchCall("command", name, cfg,
                    Register(tasks, name, NewTask("SHELL", cfg)))
    /\ UNCHANGED <<execVars, shellVars, opsVars, handlers>>

InitRegistry ==
    /\ tasks = [n \in {} |-> NoCall]
    /\ cleanupStarted = FALSE
    /\ issued = 0
    /\ calls = 0
    /\ lastCall = NoCall
    /\ first = [n \in {} |-> NoCall]
    /\ order = <<>>
    /\ handlers = AddSignalHandlers(NoHandlers, 1)

Next ==
    \/ \E name \in Names, cfg \in Settings : TaskRunnerRun(name, cfg)
    \/ \E name \in Names, cfg \in Settings : TaskRunnerCommand(name, cfg)

\* ------------------------------------------------- TaskRunner cleanup loop

\* The keep count of the Tasks registered with a COUNT retention.
Keep == 1

\* The settings of the calls made while the loops run: a one-shot Task under
\* COUNT retention with keep = Keep (written "N"), and a Task on a schedule
\* with an integer repeat count.
RunnerSettings ==
    {[schedule |-> None, trigger |-> "MANUAL", repeat |-> "NEVER",
      keep |-> "N", max_age |-> None, keep_policy |-> "COUNT"],
     [schedule |-> "1s", trigger |-> "MANUAL", repeat |-> "COUNT",
      keep |-> None, max_age |-> None, keep_policy |-> "COUNT"]}

\* prior: how the sweep before this one went ("none": there was none).
NoSweep ==
    [pc |-> "off", size |-> 0, at |-> 0, visited |-> {}, raised |-> {},
     issued |-> 0, settled |-> {}, prior |-> "none"]

\* The ids in a sequence of run ids.
Ids(runs) == {runs[i] : i \in 1..Len(runs)}

\* The last n elements of a sequence.
LastN(seq, n) ==
    IF Len(seq) <= n THEN seq ELSE SubSeq(seq, Len(seq) - n + 1, Len(seq))

\* The runs of a Task that have reached a terminal status, in creation order.
TerminalRuns(runs, done) ==
    LET IsDone(id) == id \in done IN SelectSeq(runs, IsDone)

\* Task.cleanup under the COUNT policy: of the terminal runs only the keep
\* most recently created stay; a run that is not terminal always stays.
\* (Retention by age is left out: no Task of the model uses it.)
TaskCleanup(task, done) ==
    IF task.keep_policy = "COUNT" /\ task.keep = "N"
    THEN LET kept == Ids(LastN(TerminalRuns(task.runs, done), Keep))
             Stays(id) == id \notin done \/ id \in kept
         IN  [task EXCEPT !.runs = SelectSeq(task.runs, Stays)]
    ELSE task

\* TaskRunner._run_cleanup: set by start_cleanup, cleared by shutdown and
\* abort.
RunCleanup == cleanupStarted /\ ~down.flagCleared

\* A run of a Task reaches a terminal status.
RunSettles(id) ==
    /\ id \notin settled
    /\ down.pc # "waiting"
    /\ \E n \in DOMAIN tasks : id \in Ids(tasks[n].runs)
    /\ settled' = settled \cup {id}
    /\ UNCHANGED <<lastOp, sweep, down, query, evicted, loops>>
    /\ UNCHANGED <<execVars, shellVars, regVars>>

\* TaskRunner._cleanup: the loop tests _run_cleanup and enters
\* _cleanup_scheduled_tasks, whose `for` takes an iterator over
\* self.tasks.values().
SweepBegin ==
    /\ cleanupStarted
    /\ sweep.pc \in {"off", "sleep"}
    /\ down.pc # "waiting"
    /\ RunCleanup
    /\ sweep' = [pc |-> "sweeping", size |-> Len(order), at |-> 1,
                 visited |-> {}, raised |-> {},
                 issued |-> issued, settled |-> settled,
                 prior |-> IF sweep.pc = "off" THEN "none"
                           ELSE IF sweep.raised # {} THEN "raised"
                           ELSE "clean"]
    /\ UNCHANGED <<lastOp, down, query, settled, evicted, loops>>
    /\ UNCHANGED <<execVars, shellVars, regVars>>

\* TaskRunner._cleanup: the loop finds _run_cleanup cleared and returns.
SweepLoopExits ==
    /\ cleanupStarted
    /\ sweep.pc \in {"off", "sleep"}
    /\ down.pc # "waiting"
    /\ ~RunCleanup
    /\ sweep' = [sweep EXCEPT !.pc = "ended"]
    /\ UNCHANGED <<lastOp, down, query, settled, evicted, loops>>
    /\ UNCHANGED <<execVars, shellVars, regVars>>

\* _cleanup_scheduled_tasks without its try block: an exception of a
\* cleanup leaves _cleanup and ends the loop.
SweepTaskUnguarded(raises) ==
    /\ sweep.pc = "sweeping"
    /\ down.pc # "waiting"
    /\ IF Len(order) # sweep.size
       THEN /\ sweep' = [sweep EXCEPT !.pc = "sleep"]
            /\ UNCHANGED tasks
       ELSE LET name == order[sweep.at]
                last == sweep.at = sweep.size
            IN  IF raises
                THEN /\ sweep' = [sweep EXCEPT
                             !.pc = "ended",
                             !.visited = @ \cup {name},
                             !.raised = @ \cup {name}]
                     /\ UNCHANGED tasks
                ELSE /\ sweep' = [sweep EXCEPT
                             !.pc = IF last THEN "sleep" ELSE "sweeping",
                             !.at = IF last THEN @ ELSE @ + 1,
                             !.visited = @ \cup {name}]
                     /\ tasks' = [tasks EXCEPT
                                     ![name] = TaskCleanup(@, settled)]
    /\ evicted' = evicted \cup
           {p \in (DOMAIN tasks) \X (1..issued) :
               /\ p[2] \in Ids(tasks[p[1]].runs)
               /\ p[2] \notin Ids(tasks'[p[1]].runs)}
    /\ UNCHANGED <<cleanupStarted, issued, calls, lastCall, first, order,
                   handlers>>
    /\ UNCHANGED <<lastOp, down, query, settled, loops>>
    /\ UNCHANGED <<execVars, shellVars>>

\* _cleanup_scheduled_tasks, one iteration of `for task in
\* self.tasks.values(): await task.cleanup()`. The try block encloses the
\* whole loop: an exception of one cleanup, or the RuntimeError of the
\* iterator when the dict has grown during an await, leaves the loop and is
\* swallowed after it; the sweep is over and the loop sleeps.
SweepTask(raises) ==
    /\ sweep.pc = "sweeping"
    /\ down.pc # "waiting"
    /\ IF Len(order) # sweep.size
       THEN /\ sweep' = [sweep EXCEPT !.pc = "sleep"]
            /\ UNCHANGED tasks
       ELSE LET name == order[sweep.at]
                last == sweep.at = sweep.size
            IN  IF raises
                THEN /\ sweep' = [sweep EXCEPT
                             !.pc = "sleep",
                             !.visited = @ \cup {name},
                             !.raised = @ \cup {name}]
                     /\ UNCHANGED tasks
                ELSE /\ sweep' = [sweep EXCEPT
                             !.pc = IF last THEN "sleep" ELSE "sweeping",
                             !.at = IF last THEN @ ELSE @ + 1,
                             !.visited = @ \cup {name}]
                     /\ tasks' = [tasks EXCEPT
                                     ![name] = TaskCleanup(@, settled)]
    /\ evicted' = evicted \cup
           {p \in (DOMAIN tasks) \X (1..issued) :
               /\ p[2] \in Ids(tasks[p[1]].runs)
               /\ p[2] \notin Ids(tasks'[p[1]].runs)}
    /\ UNCHANGED <<cleanupStarted, issued, calls, lastCall, first, order,
                   handlers>>
    /\ UNCHANGED <<lastOp, down, query, settled, loops>>
    /\ UNCHANGED <<execVars, shellVars>>

\* -------------------------------------------------- TaskRunner teardown

NoTeardown ==
    [call |-> "none", pc |-> "idle", size |-> 0, at |-> 0, shut |-> {},
     flagCleared |-> FALSE, poolDown |-> FALSE]

\* The event loop's thread is not held inside a blocking call.
LoopFree == down.pc # "waiting"

\* executor.shutdown(cancel_futures=True): the work items still queued are
\* cancelled, and the await of a run on such an item ends with
\* CancelledError, which no handler of Run._execute catches: the coroutine
\* ends with the status as it is.
PoolShutsDown ==
    /\ work' = [r \in Runs |->
                   IF kind[r] = "pool" /\ work[r] = "queued"
                   THEN "cancelled" ELSE work[r]]
    /\ pc' = [r \in Runs |->
                 IF kind[r] = "pool" /\ work[r] = "queued"
                    /\ pc[r] = "inpool"
                 THEN "done" ELSE pc[r]]
    /\ UNCHANGED <<kind, status, result, error, deadline, semaphore>>

\* executor.shutdown is called with the default wait=True: it returns once
\* no work item is executing.
AfterPoolShutdown ==
    IF Executing = {} THEN "returned" ELSE "waiting"

\* TaskRunner.shutdown is called: its `for` takes an iterator over
\* self.tasks.values().
ShutdownCall ==
    /\ down.call = "none"
    /\ down' = [down EXCEPT !.call = "shutdown", !.size = Len(order),
                            !.at = 1,
                            !.pc = IF order = <<>> THEN "stop_cleanup"
                                                   ELSE "tasks"]
    /\ UNCHANGED <<lastOp, sweep, query, settled, evicted, loops>>
    /\ UNCHANGED <<execVars, shellVars, regVars>>

\* TaskRunner.shutdown, one iteration of `for task in self.tasks.values():
\* await task.shutdown()`. Nothing encloses the loop: an exception of one
\* Task's shutdown, or the RuntimeError of the iterator when the dict has
\* grown during an await, leaves shutdown.
ShutdownTask(raises) ==
    /\ down.call = "shutdown"
    /\ down.pc = "tasks"
    /\ IF Len(order) # down.size \/ raises
       THEN down' = [down EXCEPT !.pc = "raised"]
       ELSE down' = [down EXCEPT
                !.shut = @ \cup {order[down.at]},
                !.at = @ + 1,
                !.pc = IF down.at = down.size THEN "stop_cleanup"
                                              ELSE "tasks"]
    /\ UNCHANGED <<lastOp, sweep, query, settled, evicted, loops>>
    /\ UNCHANGED <<execVars, shellVars, regVars>>

\* TaskRunner.shutdown: `self._run_cleanup = False`, then
\* `self._cleanup_task.cancel()` and `await asyncio.sleep(0)`: the cleanup
\* loop, if it was started and has not returned, is cancelled where it is
\* suspended.
ShutdownStopsCleanup ==
    /\ down.call = "shutdown"
    /\ down.pc = "stop_cleanup"
    /\ down' = [down EXCEPT !.flagCleared = TRUE, !.pc = "pool"]
    /\ sweep' = IF cleanupStarted THEN [sweep EXCEPT !.pc = "ended"]
                                  ELSE sweep
    /\ UNCHANGED <<lastOp, query, settled, evicted, loops>>
    /\ UNCHANGED <<execVars, shellVars, regVars>>

\* TaskRunner.shutdown: `self._executor.shutdown(cancel_futures=True)`.
ShutdownPool ==
    /\ down.call = "shutdown"
    /\ down.pc = "pool"
    /\ PoolShutsDown
    /\ down' = [down EXCEPT !.poolDown = TRUE, !.pc = AfterPoolShutdown]
    /\ UNCHANGED <<lastOp, sweep, query, settled, evicted, loops>>
    /\ UNCHANGED <<shellVars, regVars>>

\* TaskRunner.abort, a plain function: every Task is aborted,
\* _run_cleanup is cleared, _cleanup_task.set_result raises (swallowed; the
\* loop is left to find the flag), and the executor is shut down.
AbortCall ==
    /\ down.call = "none"
    /\ PoolShutsDown
    /\ down' = [down EXCEPT !.call = "abort", !.size = Len(order),
                            !.shut = Ids(order), !.flagCleared = TRUE,
                            !.poolDown = TRUE, !.pc = AfterPoolShutdown]
    /\ UNCHANGED <<lastOp, sweep, query, settled, evicted, loops>>
    /\ UNCHANGED <<shellVars, regVars>>

\* The last executing work item has ended: executor.shutdown returns, and
\* with it the shutdown or abort call.
PoolDrained ==
    /\ down.pc = "waiting"
    /\ Executing = {}
    /\ down' = [down EXCEPT !.pc = "returned"]
    /\ UNCHANGED <<lastOp, sweep, query, settled, evicted, loops>>
    /\ UNCHANGED <<execVars, shellVars, regVars>>

\* The TaskRunner's cleanup loop over Tasks whose runs settle.
NextSweep ==
    \/ \E name \in Names, cfg \in RunnerSettings : TaskRunnerRun(name, cfg)
    \/ \E id \in 1..issued : RunSettles(id)
    \/ SweepBegin
    \/ \E raises \in BOOLEAN : SweepTask(raises)

\* The TaskRunner's teardown: shutdown or abort with Tasks registered, the
\* cleanup loop started and in-process runs on the pool.
NextTeardown ==
    \/ \E name \in Names, cfg \in RunnerSettings :
           TaskRunnerCommand(name, cfg)
    \/ SweepBegin
    \/ SweepLoopExits
    \/ ShutdownCall
    \/ \E raises \in BOOLEAN : ShutdownTask(raises)
    \/ ShutdownStopsCleanup
    \/ ShutdownPool
    \/ AbortCall

\* The settings of a one-shot Task.
OneShot == {cfg \in RunnerSettings : cfg.repeat = "NEVER"}

\* The cleanup loop from the first dispatch to the teardown of the
\* TaskRunner, with cleanups that raise.
NextCleanupLoop ==
    \/ \E name \in Names, cfg \in OneShot : TaskRunnerRun(name, cfg)
    \/ \E name \in Names, cfg \in OneShot : TaskRunnerCommand(name, cfg)
    \/ SweepBegin
    \/ \E raises \in BOOLEAN : SweepTask(raises)
    \/ SweepLoopExits
    \/ ShutdownCall
    \/ \E raises \in BOOLEAN : ShutdownTask(raises)
    \/ ShutdownStopsCleanup
    \/ ShutdownPool
    \/ AbortCall

\* Run._execute of a pool-bound run after the pool was shut down: the slot
\* is acquired, run_in_executor raises RuntimeError (no new work after
\* shutdown), handled as any exception of the callable; the slot is not
\* released.
SubmitRefused(r) ==
    /\ down.poolDown
    /\ kind[r] = "pool"
    /\ pc[r] \in {"start", "acquire"}
    /\ semaphore > 0
    /\ semaphore' = semaphore - 1
    /\ status' = [status EXCEPT ![r] = "FAILED"]
    /\ error' = [error EXCEPT ![r] = "exception"]
    /\ pc' = [pc EXCEPT ![r] = "done"]
    /\ UNCHANGED <<kind, result, deadline, work>>
    /\ UNCHANGED <<shellVars, regVars, opsVars>>

\* The teardown of the TaskRunner while pool-bound runs are on the pool:
\* the steps of the event loop wait while its thread is held, the workers
\* go on.
NextPoolTeardown ==
    \/ \E r \in Runs : LoopFree /\ Dispatch(r, "pool", FALSE)
    \/ \E r \in Runs : LoopFree /\ ~down.poolDown /\ Start(r)
    \/ \E r \in Runs : LoopFree /\ ~down.poolDown /\ Acquire(r)
    \/ \E r \in Runs : LoopFree /\ SubmitRefused(r)
    \/ \E r \in Runs : PoolStart(r)
    \/ \E r \in Runs : CallableReturns(r)
    \/ \E r \in Runs : CallableRaises(r)
    \/ \E r \in Runs : LoopFree /\ Resume(r)
    \/ ShutdownCall
    \/ ShutdownStopsCleanup
    \/ ShutdownPool
    \/ AbortCall
    \/ PoolDrained

\* Signals delivered to the process.
MaxSignals == 2

\* The process has not been ended by a signal's default behaviour.
Alive == handlers.ended = None

\* A signal is delivered to the process. Under the loop's handler the
\* callback kept for the signal is run on the event loop: shutdown_executor
\* begins with executor.shutdown(cancel_futures=True), which holds the
\* loop's thread until no work item is executing. Under any other handler
\* the signal's own behaviour applies and ends the process (SIGINT: by
\* KeyboardInterrupt).
SignalDelivered(sig) ==
    /\ Alive
    /\ handlers.delivered < MaxSignals
    /\ handlers.running = None
    /\ LoopFree
    /\ IF handlers.handler[sig] = LoopHandler
       THEN /\ PoolShutsDown
            /\ down' = [down EXCEPT !.call = "signal", !.poolDown = TRUE,
                                    !.pc = AfterPoolShutdown]
            /\ handlers' = [handlers EXCEPT !.running = sig,
                                            !.delivered = @ + 1]
       ELSE /\ handlers' = [handlers EXCEPT !.ended = sig,
                                            !.delivered = @ + 1]
            /\ UNCHANGED <<execVars, down>>
    /\ UNCHANGED <<tasks, cleanupStarted, issued, calls, lastCall, first,
                   order>>
    /\ UNCHANGED <<lastOp, sweep, query, settled, evicted, loops>>
    /\ UNCHANGED shellVars

\* shutdown_executor after executor.shutdown has returned:
\* `signal.signal(sig, default_handler)`, with the values the closed-over
\* variables have now.
HandlerRestores ==
    /\ Alive
    /\ handlers.running # None
    /\ down.pc = "returned"
    /\ handlers' =
           [handlers EXCEPT
               !.handler[handlers.cell.sig] = handlers.cell.default_handler,
               !.handled = @ \cup {handlers.running},
               !.running = None]
    /\ UNCHANGED <<tasks, cleanupStarted, issued, calls, lastCall, first,
                   order>>
    /\ UNCHANGED <<execVars, shellVars, opsVars>>

\* The signals of the process while pool-bound runs are on the pool.
NextSignals ==
    \/ \E r \in Runs : Alive /\ LoopFree /\ Dispatch(r, "pool", FALSE)
    \/ \E r \in Runs : Alive /\ LoopFree /\ ~down.poolDown /\ Start(r)
    \/ \E r \in Runs : Alive /\ LoopFree /\ ~down.poolDown /\ Acquire(r)
    \/ \E r \in Runs : Alive /\ LoopFree /\ SubmitRefused(r)
    \/ \E r \in Runs : Alive /\ PoolStart(r)
    \/ \E r \in Runs : Alive /\ CallableReturns(r)
    \/ \E r \in Runs : Alive /\ CallableRaises(r)
    \/ \E r \in Runs : Alive /\ LoopFree /\ Resume(r)
    \/ \E sig \in Signals : SignalDelivered(sig)
    \/ HandlerRestores
    \/ Alive /\ PoolDrained

\* ------------------------------------------------- Task scheduling loop

\* The integer repeat count of the Tasks registered with one (the repeat
\* written "COUNT").
Repeat == 2

\* The Task's scheduling loop, one round: the interval has passed, a new
\* Run with a fresh id is dispatched and the remaining count goes down by
\* one; the loop stops when the budget is used up.
ScheduleTick(name) ==
    /\ name \in DOMAIN tasks
    /\ tasks[name].scheduled
    /\ tasks[name].schedule # None
    /\ tasks[name].repeat = "COUNT"
    /\ loops[name].made < Repeat
    /\ issued' = issued + 1
    /\ loops' = [loops EXCEPT ![name].made = @ + 1]
    /\ tasks' = [tasks EXCEPT
           ![name] = [TaskRun(@, issued + 1) EXCEPT
                         !.scheduled = loops[name].made + 1 < Repeat]]
    /\ UNCHANGED <<cleanupStarted, calls, lastCall, first, order, handlers>>
    /\ UNCHANGED <<lastOp, sweep, down, query, settled, evicted>>
    /\ UNCHANGED <<execVars, shellVars>>

\* Task.cancel_schedule: the recurring-dispatch loop is stopped.
TaskCancelSchedule(task) == [task EXCEPT !.scheduled = FALSE]

\* TaskRunner.cancel_schedule that finds the Task and does not forward the
\* call.
CancelScheduleDropped(name) ==
    /\ loops' = [loops EXCEPT ![name].cancelAt = calls]
    /\ UNCHANGED <<lastOp, sweep, down, query, settled, evicted>>
    /\ UNCHANGED <<execVars, shellVars, regVars>>

\* TaskRunner.cancel_schedule: `task = self.tasks.get(task_name)`, and
\* `if task: await task.cancel_schedule()`.
TaskRunnerCancelSchedule(name) ==
    /\ loops' = [loops EXCEPT ![name].cancelAt = calls]
    /\ tasks' = IF name \in DOMAIN tasks
                THEN [tasks EXCEPT ![name] = TaskCancelSchedule(@)]
                ELSE tasks
    /\ UNCHANGED <<cleanupStarted, issued, calls, lastCall, first, order,
                   handlers>>
    /\ UNCHANGED <<lastOp, sweep, down, query, settled, evicted>>
    /\ UNCHANGED <<execVars, shellVars>>

\* The registry with the scheduling loops of its Tasks.
NextSchedule ==
    \/ \E name \in Names, cfg \in RunnerSettings : TaskRunnerRun(name, cfg)
    \/ \E name \in Names : ScheduleTick(name)
    \/ \E name \in Names : TaskRunnerCancelSchedule(name)

\* ---------------------------------------------------- TaskRunner queries

\* What a query comes to: with `self.tasks[name]` an unknown name raises
\* KeyError; with `self.tasks.get(name)` guarded by `if task` it falls off
\* the end of the method and None is returned. A known name gives what the
\* Task gives.
Lookup(name, subscript) ==
    IF name \in DOMAIN tasks THEN "value"
    ELSE IF subscript THEN "raised" ELSE "None"

Queried(call, name, subscript) ==
    [name |-> call, known |-> name \in DOMAIN tasks,
     out |-> Lookup(name, subscript)]

\* TaskRunner.get_task_update: `self.tasks[command_name]`.
TaskRunnerGetTaskUpdate(name) ==
    /\ query' = Queried("get_task_update", name, TRUE)
    /\ UNCHANGED <<lastOp, sweep, down, settled, evicted, loops>>
    /\ UNCHANGED <<execVars, shellVars, regVars>>

\* TaskRunner.wait: its first statement is get_task_update.
TaskRunnerWait(name) ==
    /\ query' = Queried("wait", name, TRUE)
    /\ UNCHANGED <<lastOp, sweep, down, settled, evicted, loops>>
    /\ UNCHANGED <<execVars, shellVars, regVars>>

\* TaskRunner.get_task_status: `if task := self.tasks.get(task_name)`.
TaskRunnerGetTaskStatus(name) ==
    /\ query' = Queried("get_task_status", name, FALSE)
    /\ UNCHANGED <<lastOp, sweep, down, settled, evicted, loops>>
    /\ UNCHANGED <<execVars, shellVars, regVars>>

\* TaskRunner.get_run_status: `if task := self.tasks.get(task_name)`.
TaskRunnerGetRunStatus(name) ==
    /\ query' = Queried("get_run_status", name, FALSE)
    /\ UNCHANGED <<lastOp, sweep, down, settled, evicted, loops>>
    /\ UNCHANGED <<execVars, shellVars, regVars>>

\* TaskRunner.complete: `if task := self.tasks.get(task_name)`.
TaskRunnerComplete(name) ==
    /\ query' = Queried("complete", name, FALSE)
    /\ UNCHANGED <<lastOp, sweep, down, settled, evicted, loops>>
    /\ UNCHANGED <<execVars, shellVars, regVars>>

\* The registry and the queries on it.
NextQueries ==
    \/ \E name \in Names, cfg \in RunnerSettings : TaskRunnerRun(name, cfg)
    \/ \E name \in Names : TaskRunnerGetTaskUpdate(name)
    \/ \E name \in Names : TaskRunnerWait(name)
    \/ \E name \in Names : TaskRunnerGetTaskStatus(name)
    \/ \E name \in Names : TaskRunnerGetRunStatus(name)
    \/ \E name \in Names : TaskRunnerComplete(name)

\* ------------------------------------------------------- calls on a Run

\* The external-command run, as the target of a call (the in-process runs
\* are the elements of Runs).
ShellRun == 0

NoOp == [name |-> "none", on |-> 0, was |-> None, out |-> None]

\* No in-process run has been dispatched or called.
ExecIdle == \A r \in Runs : pc[r] = "new" /\ status[r] = "CREATED"

\* The external-command run has not been dispatched or called.
ShellIdle == shell.pc = "new" /\ shell.status = "CREATED"

\* Run.complete on an in-process run: with status COMPLETE or FAILED it
\* awaits the finished _task and returns its value, Run.result; with any
\* other status it returns None at once.
RunComplete(r) ==
    /\ status[r] \in {"COMPLETE", "FAILED"} => pc[r] = "done"
    /\ lastOp' = [name |-> "complete", on |-> r, was |-> status[r],
                  out |-> IF status[r] \in {"COMPLETE", "FAILED"}
                          THEN result[r] ELSE None]
    /\ UNCHANGED <<sweep, down, query, settled, evicted, loops>>
    /\ UNCHANGED <<execVars, shellVars, regVars>>

\* Run.cancel that also clears the result.
RunCancelClearing(r) ==
    /\ status' = [status EXCEPT ![r] = "CANCELLED"]
    /\ result' = [result EXCEPT ![r] = None]
    /\ lastOp' = [name |-> "cancel", on |-> r, was |-> status[r],
                  out |-> "returned"]
    /\ UNCHANGED <<pc, kind, error, deadline, work, semaphore>>
    /\ UNCHANGED <<sweep, down, query, settled, evicted, loops>>
    /\ UNCHANGED <<shellVars, regVars>>

\* Run.cancel on an in-process run, dispatched or not: there is no process;
\* _task.set_result raises (the Task's RuntimeError, or AttributeError on
\* None), swallowed; the status is set to CANCELLED and cancel returns.
RunCancel(r) ==
    /\ status' = [status EXCEPT ![r] = "CANCELLED"]
    /\ lastOp' = [name |-> "cancel", on |-> r, was |-> status[r],
                  out |-> "returned"]
    /\ UNCHANGED <<pc, kind, result, error, deadline, work, semaphore>>
    /\ UNCHANGED <<sweep, down, query, settled, evicted, loops>>
    /\ UNCHANGED <<shellVars, regVars>>

\* Run.abort on an in-process run, dispatched or not: as cancel.
RunAbort(r) ==
    /\ status' = [status EXCEPT ![r] = "CANCELLED"]
    /\ lastOp' = [name |-> "abort", on |-> r, was |-> status[r],
                  out |-> "returned"]
    /\ UNCHANGED <<pc, kind, result, error, deadline, work, semaphore>>
    /\ UNCHANGED <<sweep, down, query, settled, evicted, loops>>
    /\ UNCHANGED <<shellVars, regVars>>

\* Run.cancel on the external-command run, dispatched or not: a live
\* process is sent the terminate signal (psutil's lookup of a process that
\* is gone raises, swallowed; without a process nothing is sent);
\* _task.set_result raises, swallowed; the status is set to CANCELLED.
ShellRunCancel ==
    /\ process' = [process EXCEPT
           !.sig = IF process.spawned /\ ~process.exited /\ @ = "none"
                   THEN "TERM" ELSE @]
    /\ shell' = [shell EXCEPT !.status = "CANCELLED", !.cancelled = TRUE]
    /\ lastOp' = [name |-> "cancel", on |-> ShellRun, was |-> shell.status,
                  out |-> "returned"]
    /\ UNCHANGED <<read_lock, rd>>
    /\ UNCHANGED <<sweep, down, query, settled, evicted, loops>>
    /\ UNCHANGED <<execVars, regVars>>

\* Run.abort on the external-command run, dispatched or not: the process,
\* if there is one, is killed (Process.kill on a process whose transport
\* has closed raises ProcessLookupError out of abort before the status is
\* set); then as cancel.
ShellRunAbort(raises) ==
    /\ raises => process.spawned /\ process.exited
    /\ IF raises
       THEN /\ UNCHANGED <<shell, process>>
            /\ lastOp' = [name |-> "abort", on |-> ShellRun,
                          was |-> shell.status, out |-> "raised"]
       ELSE /\ process' = [process EXCEPT
                   !.sig = IF process.spawned /\ ~process.exited
                           THEN "KILL" ELSE @]
            /\ shell' = [shell EXCEPT !.status = "CANCELLED",
                                      !.cancelled = TRUE]
            /\ lastOp' = [name |-> "abort", on |-> ShellRun,
                          was |-> shell.status, out |-> "returned"]
    /\ UNCHANGED <<read_lock, rd>>
    /\ UNCHANGED <<sweep, down, query, settled, evicted, loops>>
    /\ UNCHANGED <<execVars, regVars>>

\* The in-process run the calls are made on; the runs are interchangeable.
Called == CHOOSE r \in Runs : TRUE

\* The calls on a Run: in a behaviour either one in-process run or the
\* external-command run (with its polling loop as the only reader of its
\* pipes) is dispatched and called.
NextCalls ==
    \/ \E k \in {"async", "pool"}, t \in BOOLEAN :
           ShellIdle /\ Dispatch(Called, k, t)
    \/ ShellIdle /\ Start(Called)
    \/ ShellIdle /\ PoolStart(Called)
    \/ ShellIdle /\ CallableReturns(Called)
    \/ ShellIdle /\ CallableRaises(Called)
    \/ ShellIdle /\ Resume(Called)
    \/ ShellIdle /\ AsyncReturns(Called)
    \/ ShellIdle /\ AsyncRaises(Called)
    \/ ShellIdle /\ AsyncTimeout(Called)
    \/ ShellIdle /\ RunComplete(Called)
    \/ ShellIdle /\ RunCancel(Called)
    \/ ShellIdle /\ RunAbort(Called)
    \/ \E t \in BOOLEAN : ExecIdle /\ ShellDispatch(t)
    \/ \E ok \in BOOLEAN : ExecIdle /\ ShellSpawn(ok)
    \/ \E code \in ExitCodes : ExecIdle /\ ProcExit(code)
    \/ ExecIdle /\ LockAcquire(Poll)
    \/ ExecIdle /\ PollReadStderr
    \/ ExecIdle /\ PollReadStdout
    \/ ExecIdle /\ PollWakes
    \/ ExecIdle /\ ShellTimeout
    \/ ExecIdle /\ ShellRunCancel
    \/ \E raises \in BOOLEAN : ExecIdle /\ ShellRunAbort(raises)

\* ---------------------------------------------------------- specifications

InitOps ==
    /\ lastOp = NoOp
    /\ sweep = NoSweep
    /\ down = NoTeardown
    /\ query = [name |-> "none", known |-> FALSE, out |-> "none"]
    /\ settled = {}
    /\ evicted = {}
    /\ loops = [n \in Names |-> [made |-> 0, cancelAt |-> -1]]

Init ==
    /\ InitExec
    /\ InitShell
    /\ InitRegistry
    /\ InitOps

Spec == Init /\ [][Next]_vars

SpecExec == Init /\ [][NextExec]_vars

\* The event loop runs every ready coroutine, the pool runs every queued
\* item when a worker is free, and every callable eventually returns or
\* raises.
SpecExecFair == SpecExec /\ \A r \in Runs : WF_vars(RunStep(r))

SpecShell == Init /\ [][NextShell]_vars

SpecCalls == Init /\ [][NextCalls]_vars

SpecSweep == Init /\ [][NextSweep]_vars

\* The event loop resumes the cleanup coroutine when its sleep is over and
\* when the cleanup it awaits has ended.
SpecCleanupLoop ==
    /\ Init
    /\ [][NextCleanupLoop]_vars
    /\ WF_vars(SweepBegin)
    /\ WF_vars(\E raises \in BOOLEAN : SweepTask(raises))

SpecSignals == Init /\ [][NextSignals]_vars

SpecSchedule == Init /\ [][NextSchedule]_vars

SpecQueries == Init /\ [][NextQueries]_vars

SpecPoolTeardown == Init /\ [][NextPoolTeardown]_vars

SpecTeardown == Init /\ [][NextTeardown]_vars

\* ------------------------------------------------------------------ claims

\* C1: with worker-pool capacity K, in every reachable state at most K
\* callables of pool-bound runs are executing on the pool.
C1_AtMostKExecuting == Cardinality(Executing) <= K

\* C1 witness: K callables execute while a further pool-bound run is queued
\* on the semaphore.
C1_Witness ==
    /\ Cardinality(Executing) = K
    /\ \E r \in Runs : pc[r] = "acquire"

\* C2: every run queued on the semaphore eventually gets a slot, given that
\* every callable holding a slot eventually returns or raises (SpecExecFair).
C2_QueuedRunGetsSlot ==
    \A r \in Runs : (pc[r] = "acquire") ~> (pc[r] # "acquire")

\* C3: a run whose work is still going when its timeout elapses reaches
\* FAILED (a cancelled run may show CANCELLED instead); it never stays
\* RUNNING forever (SpecExecFair).
C3_OverrunReachesFailed ==
    \A r \in Runs :
        (deadline[r] = "overran") ~> (status[r] \in {"FAILED", "CANCELLED"})

\* C4: once a run's status is COMPLETE, FAILED or CANCELLED, no step changes
\* it.
C4_TerminalIsFinal ==
    [][\A r \in Runs : status[r] \in Terminal => status'[r] = status[r]]_vars

\* C8: a pool-bound run dispatched with a timeout whose callable returned
\* before the timeout elapsed ends COMPLETE with the callable's return value
\* (unless it was cancelled).
C8_InTimeCompletes ==
    \A r \in Runs :
        (/\ kind[r] = "pool"
         /\ pc[r] = "done"
         /\ deadline[r] \in {"armed", "late"}
         /\ work[r] = "returned"
         /\ status[r] # "CANCELLED")
        => (status[r] = "COMPLETE" /\ result[r] = RetVal)

\* What is reported as the run's result: Run.result when it was set, else
\* the result of the update the run ended with.
ReportedResult ==
    IF shell.result # NoText THEN shell.result ELSE shell.update.result

\* The run's _execute_shell coroutine has ended (returned, or ended by an
\* exception), its process has exited, and the run was neither cancelled
\* nor timed out.
ShellEnded ==
    /\ shell.pc \in {"done", "crashed"}
    /\ process.exited
    /\ ~shell.timedOut
    /\ ~shell.cancelled

\* C5: an external-command run neither cancelled nor timed out ends COMPLETE
\* when the process exited with code 0, and FAILED with a non-empty error
\* message when it exited with another code.
C5_StatusByExitCode ==
    ShellEnded =>
        /\ process.returncode = 0 => shell.status = "COMPLETE"
        /\ process.returncode # 0 =>
               shell.status = "FAILED" /\ ErrorNonEmpty(shell.error)

\* C6: the result reported for a run whose process exited with code 0 is
\* everything the process wrote to stdout.
C6_ResultIsAllStdout ==
    (ShellEnded /\ shell.pc = "done" /\ process.returncode = 0) =>
        ReportedResult = process.written

\* C7: after the run's overall timeout has expired, the read lock is not
\* left held by the cancelled polling loop.
C7_LockFreeAfterTimeout == shell.timedOut => Poll \notin read_lock

\* C9: every call of run or command dispatches work and returns a Run.
C9_CallReturnsRun == lastCall.op # "none" => lastCall.returned # NoRun

\* C10: the registry holds exactly one Task per name used, with the settings
\* of the first call under that name.
C10_SettingsOfFirstCall ==
    /\ DOMAIN tasks = DOMAIN first
    /\ \A n \in DOMAIN tasks : SettingsOf(tasks[n]) = first[n]

\* C10 witness: a name was used again with settings other than its Task's.
C10_Witness ==
    /\ lastCall.op # "none"
    /\ calls > Cardinality(DOMAIN tasks)
    /\ lastCall.settings # SettingsOf(tasks[lastCall.name])

\* C11: within one sweep, a Task whose cleanup raises does not stop the
\* sweep for the others: when the sweep is over, the cleanup of every Task
\* that was registered when it began has been invoked.
C11_SweepReachesOthers ==
    (sweep.pc = "sleep" /\ sweep.raised # {}) =>
        \A i \in 1..sweep.size : order[i] \in sweep.visited

\* C12: complete called on a run that is still CREATED or RUNNING does not
\* return before the run is terminal: no complete call has returned on a
\* run whose status was CREATED or RUNNING.
C12_CompleteWaits ==
    lastOp.name = "complete" => lastOp.was \notin {"CREATED", "RUNNING"}

\* The fields of the in-process run under call.
CalledRun ==
    <<pc[Called], kind[Called], status[Called], result[Called],
      error[Called], deadline[Called], work[Called]>>

\* C13: cancel on a run that is already CANCELLED is a no-op and does not
\* raise: the run (its fields, and for an external command its process, its
\* lock and its readers) is after the call as it was before, for an
\* in-process and for an external-command run, with the process exited or
\* not.
C13_CancelTwiceIsNoOp ==
    [][/\ (RunCancel(Called) /\ status[Called] = "CANCELLED") =>
              (CalledRun' = CalledRun /\ lastOp'.out = "returned")
       /\ (ShellRunCancel /\ shell.status = "CANCELLED") =>
              (shellVars' = shellVars /\ lastOp'.out = "returned")]_vars

\* C13 witness: cancel has returned on an external-command run that was
\* already CANCELLED and whose process has exited.
C13_Witness ==
    /\ lastOp.name = "cancel"
    /\ lastOp.on = ShellRun
    /\ lastOp.was = "CANCELLED"
    /\ process.exited

\* C14: cancel and abort on a run that has not been dispatched (no process
\* handle, no task handle) do not raise and leave the run as constructed.
C14_UndispatchedUntouched ==
    /\ (pc[Called] = "new" /\ lastOp.on = Called
        /\ lastOp.name \in {"cancel", "abort"}) =>
           (/\ lastOp.out = "returned"
            /\ status[Called] = "CREATED"
            /\ result[Called] = None
            /\ error[Called] = "none")
    /\ (shell.pc = "new" /\ lastOp.on = ShellRun
        /\ lastOp.name \in {"cancel", "abort"}) =>
           (/\ lastOp.out = "returned"
            /\ shell.status = "CREATED"
            /\ shell.result = NoText
            /\ shell.error = NoError)

\* C15: when a shutdown call is over, every Task registered when it was
\* made has been asked to shut down, the cleanup loop has been stopped and
\* the pool has been shut down, also when the shutdown of a Task raised.
C15_ShutdownReachesAll ==
    (down.call = "shutdown" /\ down.pc \in {"returned", "raised"}) =>
        /\ \A i \in 1..down.size : order[i] \in down.shut
        /\ down.flagCleared
        /\ down.poolDown

\* C16: abort does not wait for the pool (it is never held until executing
\* work has ended), whereas shutdown has returned only when no pool work is
\* outstanding.
C16_AbortDoesNotWait ==
    /\ down.call = "abort" => down.pc # "waiting"
    /\ (down.call = "shutdown" /\ down.pc = "returned") =>
           \A r \in Runs : work[r] \notin {"queued", "running"}

\* C17: a query that names a task not in the registry raises to the caller;
\* it never returns silently.
C17_UnknownNameRaises ==
    (query.name # "none" /\ ~query.known) => query.out = "raised"

\* C18: a failure inside a run (the callable raised, the process exited
\* with a non-zero code, or the process could not be spawned) is recorded
\* on the run: once its coroutine has ended, a run that was not cancelled
\* is FAILED with a non-empty error message, not left RUNNING.
C18_FailureIsRecorded ==
    /\ \A r \in Runs :
           (pc[r] = "done" /\ work[r] = "raised"
            /\ status[r] # "CANCELLED") =>
               (status[r] = "FAILED" /\ error[r] # "none")
    /\ (/\ shell.pc \in {"done", "crashed"}
        /\ ~shell.cancelled
        /\ \/ ~process.spawned
           \/ process.exited /\ process.returncode # 0) =>
           (shell.status = "FAILED" /\ ErrorNonEmpty(shell.error))

\* The runs of a Task evicted so far.
EvictedOf(n) == {id \in 1..issued : <<n, id>> \in evicted}

\* The n most recently created of a set of run ids (ids grow with creation).
MostRecent(S, n) == {x \in S : Cardinality({y \in S : y > x}) < n}

\* C19: under COUNT retention with keep = Keep, after dispatches and
\* completions followed by a sweep (nothing dispatched or completed since
\* it began), the terminal runs left in a Task are exactly the Keep most
\* recently created terminal runs, and no run evicted was still going.
C19_KeepsMostRecent ==
    /\ \A p \in evicted : p[2] \in settled
    /\ (sweep.pc = "sleep" /\ issued = sweep.issued
        /\ settled = sweep.settled) =>
           \A i \in 1..sweep.size :
               LET n == order[i]
                   left == Ids(tasks[n].runs) \cap settled
                   all == left \cup EvictedOf(n)
               IN  (/\ n \notin sweep.raised
                    /\ tasks[n].keep_policy = "COUNT"
                    /\ tasks[n].keep = "N") =>
                       left = MostRecent(all, Keep)

\* The Tasks registered with an integer repeat count, a schedule interval
\* and trigger MANUAL.
CountScheduled ==
    {n \in DOMAIN tasks : /\ tasks[n].repeat = "COUNT"
                          /\ tasks[n].schedule # None
                          /\ tasks[n].trigger = "MANUAL"}

HoldingSlot == {r \in Runs : kind[r] = "pool" /\ pc[r] = "inpool"}

\* C21: the free slots never exceed the capacity, and whenever no pool-bound
\* run is between its acquire and the end of its execution all the slots
\* are free: every run released the slot it acquired, whether its callable
\* returned or raised and whether or not it had a timeout.
C21_SlotsReleased ==
    /\ semaphore <= MaxThreads
    /\ HoldingSlot = {} => semaphore = MaxThreads

\* C22: once the handling of a delivered SIGINT or SIGTERM has ended, the
\* worker pool is shut down and the signal has again the handler it had
\* when the TaskRunner was constructed, so that its next delivery gets the
\* signal's own behaviour.
C22_OwnHandlerRestored ==
    \A sig \in {"SIGINT", "SIGTERM"} :
        (sig \in handlers.handled /\ Alive) =>
            /\ down.poolDown
            /\ handlers.handler[sig] = Original(sig)

\* The readers inside a bounded read of one of the pipes.
Reading == {x \in Readers : rd[x].at \in {"err_read", "out_read"}}

\* The chunks are neighbours in the stream, in its order (a chunk's number
\* is its place in the stream, negated when it is not UTF-8).
Consecutive(buffer) ==
    \A i \in 1..(Len(buffer) - 1) :
        LET a == IF buffer[i] < 0 THEN 0 - buffer[i] ELSE buffer[i]
            b == IF buffer[i + 1] < 0 THEN 0 - buffer[i + 1]
                 ELSE buffer[i + 1]
        IN  b = a + 1

\* C23: at most one chunk read of the run is in progress at any instant,
\* and the stdout chunks a fetch call has taken so far are consecutive in
\* the stream: no chunk taken by a concurrent call lies between them.
C23_ReadsNotInterleaved ==
    /\ Cardinality(Reading) <= 1
    /\ \A x \in Readers : Consecutive(rd[x].out)

\* Neither shutdown nor abort has been called.
NotTornDown == down.call = "none"

\* C24: the first run / command call starts the cleanup loop; until
\* shutdown or abort is called the loop has not ended, and after every
\* sweep, one ended by an exception of a Task's cleanup included, the next
\* sweep begins.
C24_CleanupLoopKeepsRunning ==
    /\ [](calls > 0 => cleanupStarted)
    /\ []((cleanupStarted /\ NotTornDown) => sweep.pc # "ended")
    /\ [](cleanupStarted =>
             <>(sweep.pc = "sweeping" \/ ~NotTornDown))
    /\ []((sweep.pc = "sleep" /\ sweep.raised # {}) =>
             <>((sweep.pc = "sweeping" /\ sweep.prior = "raised")
                \/ ~NotTornDown))

\* C24 witness: a sweep is under way after a sweep that an exception of a
\* Task's cleanup ended, with neither shutdown nor abort called.
C24_Witness ==
    /\ NotTornDown
    /\ sweep.pc = "sweeping"
    /\ sweep.prior = "raised"
    /\ sweep.visited # {}

\* The state of run r changes in the step.
Steps(r) ==
    \/ pc'[r] # pc[r]
    \/ status'[r] # status[r]
    \/ work'[r] # work[r]
    \/ result'[r] # result[r]
    \/ error'[r] # error[r]

\* C25: a run with an asynchronous callable, with or without a timeout, is
\* never waiting for a slot nor on the pool, no step of it changes the
\* number of free slots, and once dispatched it can start whatever the
\* number of free slots is.
C25_AsyncLeavesSlotsAlone ==
    /\ [](\A r \in Runs :
             kind[r] = "async" =>
                 /\ pc[r] \notin {"acquire", "inpool"}
                 /\ pc[r] = "start" => ENABLED Start(r))
    /\ [][\A r \in Runs :
             (kind'[r] = "async" /\ Steps(r)) => semaphore' = semaphore]_vars

\* C25 witness: an asynchronous callable is executing while pool-bound runs
\* hold all the slots.
C25_Witness ==
    /\ semaphore = 0
    /\ Cardinality(HoldingSlot) = MaxThreads
    /\ \E r \in Runs :
           /\ kind[r] = "async"
           /\ pc[r] = "await"
           /\ status[r] = "RUNNING"

=============================================================================
